---- MODULE Spec2Model ----
(***************************************************************************)
(* The dashboard client of the social publishing pipeline: the session     *)
(* store and API gateway (components/api), the entry route (app/page.tsx), *)
(* the login page and the dashboard page (app/dashboard/page.tsx), against *)
(* the remote control service they call over HTTP.                         *)
(*                                                                         *)
(* Every async handler invocation is a task in `tasks`.  A request is two  *)
(* steps: the service handles it (Serve*: the slot of the task goes from   *)
(* pending to a response, taken from the service's state at that moment),  *)
(* and later the client's continuation runs (the action named after the    *)
(* handler).  Everything a handler does between two awaits is one step;    *)
(* React batches the setState calls of one continuation.                   *)
(*                                                                         *)
(* Left out, because no handler reads or changes them: the numeric fields  *)
(* of Config, the provenance fields of a Candidate, Source.platform and    *)
(* the newPlatform select, Stats.last_run_at, the text of a LogEvent.      *)
(***************************************************************************)
EXTENDS Integers, Sequences, FiniteSets, TLC

\* ------------------------------------------------------------- bounds
\* Candidates the service holds.
MaxPosts == 2
\* Log events the service ever appends.
MaxLogs == 2
\* Sources the service accepts.
MaxSources == 1
\* Run jobs the service accepts.
MaxJobs == 2
\* Tasks in flight that the timer or the operator may add to.
MaxTasks == 2
\* Poll cycles in flight.
MaxPolls == 2
\* Times the operator submits the login form.
MaxLogins == 1

\* ------------------------------------------------------------- values
\* null, as a record so that it compares with every other value.
NullV == [null |-> TRUE]

\* Candidate.status, in lifecycle order.
Statuses == <<"new", "selected", "generated", "awaiting_approval", "approved", "published">>

StatusSet == {Statuses[i] : i \in 1..Len(Statuses)}

\* A Candidate the service holds at status st after the stages before st have
\* run: the generation stage is the one that leads to "generated".
Stored(st) ==
    [status |-> st,
     generated |-> \E i \in 1..Len(Statuses) :
                      Statuses[i] = "generated" /\ \E j \in i..Len(Statuses) : Statuses[j] = st]

Ids == 1..MaxPosts

Tabs == {"overview", "config", "sources", "queue", "logs"}

\* The handles the operator types into the new-source input.
Handles == {"natgeo"}

\* A request's slot: waiting for the service, or the response the service gave.
Waiting == [st |-> "waiting"]

Ok(v) == [st |-> "ok", v |-> v]

Failed(k) == [st |-> k]

FailKinds == {"auth", "error"}

\* The history variable's value after a step no property singles out.
Quiet == [op |-> "-"]

\* GET /me's body.
MeV == [email |-> "admin@example.com", workspace_name |-> "ws"]

VARIABLES
    \* the browser
    page,        \* the mounted page: "home", "login" or "dashboard"
    nav,         \* the navigation the router was asked for and has not committed: "none" or a page
    token,       \* localStorage holds a token
    timer,       \* the dashboard's setInterval is set
    tasks,       \* the async handler invocations in flight
    \* DashboardPage's state
    tab, me, cfg, sources, posts, stats, logs, runAuto, runLoading, err, newHandle,
    \* LoginPage's state
    loginErr, loading,
    \* the remote control service
    srvCfg, srvSources, srvPosts, srvLogs, srvNextLog, srvJobs, srvSession,
    \* history: the last step of the client that a property singles out, how this
    \* mount's loadAll ended, the login forms submitted, the candidates an approve
    \* re-fetch of this mount showed published, and whether a clearLogs re-fetch of
    \* this mount showed the log empty with no event appended since
    ev, loadOutcome, logins, approvedSeen, clearedSeen

dash == <<tab, me, cfg, sources, posts, stats, logs, runAuto, runLoading, err, newHandle>>

loginSt == <<loginErr, loading>>

srv == <<srvCfg, srvSources, srvPosts, srvLogs, srvNextLog, srvJobs, srvSession>>

browser == <<page, nav, token, timer, logins>>

seen == <<approvedSeen, clearedSeen>>

vars == <<page, nav, token, timer, tasks, tab, me, cfg, sources, posts, stats, logs,
          runAuto, runLoading, err, newHandle, loginErr, loading,
          srvCfg, srvSources, srvPosts, srvLogs, srvNextLog, srvJobs, srvSession, ev,
          loadOutcome, logins, approvedSeen, clearedSeen>>

\* ------------------------------------------------------ session store
getToken == token

\* ---------------------------------------------------------- api gateway
\* apiFetch attaches the bearer header when a token is stored: the request
\* carries whether it had one.  The service answers a request without a token,
\* or with one whose session it no longer honours, with an authentication
\* failure; any other request it serves or fails (a 5xx, a transport failure).
Kinds(tok) == IF tok /\ srvSession THEN {"ok", "error"} ELSE {"auth"}

\* apiFetch throws Error(txt || "HTTP status") on every non-ok response, whatever
\* the status: the message is all that tells failures apart.
ErrorMessage(k) == k

Request(slots) == [s \in slots |-> Waiting]

\* Promise.all / await: rejected by the first failed response, resolved when
\* every response is there and ok.
Rejected(t) == \E s \in DOMAIN t.r : t.r[s].st \in FailKinds

Resolved(t) == \A s \in DOMAIN t.r : t.r[s].st = "ok"

RejectionsOf(t) == {t.r[s].st : s \in {x \in DOMAIN t.r : t.r[x].st \in FailKinds}}

Swap(t, u) == (tasks \ {t}) \cup {u}

\* The timer and the operator start a handler only below the model's bound.
CanStart == Cardinality(tasks) < MaxTasks

\* ------------------------------------------------------ remote service
CountOf(ps, st) == Cardinality({i \in DOMAIN ps : ps[i].status = st})

StatsOf(ps) ==
    [total_candidates |-> Cardinality(DOMAIN ps),
     total_published |-> CountOf(ps, "published"),
     pending_approval |-> CountOf(ps, "awaiting_approval")]

ServerGet(s) ==
    CASE s = "me" -> MeV
      [] s = "config" -> srvCfg
      [] s = "sources" -> srvSources
      [] s = "stats" -> StatsOf(srvPosts)
      [] s = "logs" -> srvLogs
      [] s = "posts" -> srvPosts

GetSlots == {"me", "config", "sources", "stats", "logs", "posts"}

\* The service handles one GET of a task.
ServeGet(t, s) ==
    /\ s \in DOMAIN t.r /\ s \in GetSlots
    /\ t.r[s] = Waiting
    /\ ~Rejected(t)
    /\ \E k \in Kinds(t.tok) :
         tasks' = Swap(t, [t EXCEPT !.r[s] = IF k = "ok" THEN Ok(ServerGet(s)) ELSE Failed(k)])
    /\ UNCHANGED <<browser, dash, loginSt, srv, ev, loadOutcome, seen>>

\* The lifecycle steps the pipeline takes on its own.
NextStatuses(st) ==
    CASE st = "new" -> {"selected"}
      [] st = "selected" -> {"generated"}
      [] st = "generated" -> {"awaiting_approval", "approved", "published"}
      [] st = "approved" -> {"published"}
      [] OTHER -> {}

SrvAdvance(i) ==
    /\ \E st \in NextStatuses(srvPosts[i].status) :
         srvPosts' = [srvPosts EXCEPT ![i] = [status |-> st,
                                              generated |-> @.generated \/ st = "generated"]]
    /\ UNCHANGED <<browser, tasks, dash, loginSt, srvCfg, srvSources, srvLogs, srvNextLog,
                   srvJobs, srvSession, ev, loadOutcome, seen>>

SrvLog ==
    /\ srvNextLog <= MaxLogs
    /\ srvLogs' = Append(srvLogs, srvNextLog)
    /\ srvNextLog' = srvNextLog + 1
    /\ clearedSeen' = FALSE
    /\ UNCHANGED <<browser, tasks, dash, loginSt, srvCfg, srvSources, srvPosts, srvJobs,
                   srvSession, ev, loadOutcome, approvedSeen>>

\* ------------------------------------------------------------- router
\* r.replace / r.push: the navigation is asked for; the page changes when the
\* router commits it (NavCommit).
Goto(target) == IF page = target THEN "none" ELSE target

\* --------------------------------------------------------- entry route
HomeTarget == IF getToken THEN "dashboard" ELSE "login"

Home ==
    /\ page = "home" /\ nav = "none"
    /\ nav' = Goto(HomeTarget)
    /\ ev' = Quiet
    /\ UNCHANGED <<page, token, timer, logins, tasks, dash, loginSt, srv, loadOutcome, seen>>

\* ------------------------------------------------------ dashboard page
\* posts.filter(p => p.status === "awaiting_approval"): the ids kept, in order.
RECURSIVE FilterStatus(_, _, _)
FilterStatus(ps, i, st) ==
    IF i > Len(ps) THEN <<>>
    ELSE (IF ps[i].status = st THEN <<i>> ELSE <<>>) \o FilterStatus(ps, i + 1, st)

\* A slip: every candidate not yet published taken as pending.
pending_NotPublished ==
    SelectSeq([i \in 1..Len(posts) |-> i], LAMBDA i : posts[i].status /= "published")

pending == FilterStatus(posts, 1, "awaiting_approval")

\* "You have ${pending.length} posts waiting."
ManualApprovals == Len(pending)

\* The "Pending approval" card: stats.pending_approval, or a dash.
PendingApprovalCard == IF stats = NullV THEN -1 ELSE stats.pending_approval

\* useState's initial values.
DashboardState ==
    [tab |-> "overview", me |-> NullV, cfg |-> NullV, sources |-> <<>>, posts |-> <<>>,
     stats |-> NullV, logs |-> <<>>, runAuto |-> FALSE, runLoading |-> FALSE,
     err |-> "null", newHandle |-> ""]

DashIs(d) ==
    /\ tab = d.tab /\ me = d.me /\ cfg = d.cfg /\ sources = d.sources /\ posts = d.posts
    /\ stats = d.stats /\ logs = d.logs /\ runAuto = d.runAuto
    /\ runLoading = d.runLoading /\ err = d.err /\ newHandle = d.newHandle

DashBecomes(d) ==
    /\ tab' = d.tab /\ me' = d.me /\ cfg' = d.cfg /\ sources' = d.sources /\ posts' = d.posts
    /\ stats' = d.stats /\ logs' = d.logs /\ runAuto' = d.runAuto
    /\ runLoading' = d.runLoading /\ err' = d.err /\ newHandle' = d.newHandle

\* loadAll up to its first await: GET /me.
LoadAllTask == [op |-> "loadAll", pc |-> "me", live |-> TRUE, tok |-> getToken,
                r |-> Request({"me"})]

\* loadAll after GET /me: setMe, then the five fetches of Promise.all.
LoadAllMe(t) ==
    /\ t.op = "loadAll" /\ t.pc = "me" /\ Resolved(t)
    /\ tasks' = Swap(t, [t EXCEPT !.pc = "all", !.tok = getToken,
                                  !.r = Request({"config", "sources", "stats", "logs", "posts"})])
    /\ me' = IF t.live THEN t.r.me.v ELSE me
    /\ ev' = Quiet
    /\ UNCHANGED <<browser, tab, cfg, sources, posts, stats, logs, runAuto, runLoading, err,
                   newHandle, loginSt, srv, loadOutcome, seen>>

\* A slip: the run mode taken as approval_required itself.
LoadedRunAuto_Same(c) == c.approval_required

\* The run mode loadAll pre-selects from the loaded Config.
LoadedRunAuto(c) == ~c.approval_required

\* loadAll after Promise.all resolved.
LoadAllDone(t) ==
    /\ t.op = "loadAll" /\ t.pc = "all" /\ Resolved(t)
    /\ tasks' = tasks \ {t}
    /\ IF t.live
         THEN /\ cfg' = t.r.config.v /\ sources' = t.r.sources.v /\ stats' = t.r.stats.v
              /\ logs' = t.r.logs.v /\ posts' = t.r.posts.v
              /\ runAuto' = LoadedRunAuto(t.r.config.v)
              /\ loadOutcome' = "ok"
         ELSE UNCHANGED <<cfg, sources, stats, logs, posts, runAuto, loadOutcome>>
    /\ ev' = [op |-> "LoadAllDone", live |-> t.live]
    /\ UNCHANGED <<browser, tab, me, runLoading, err, newHandle, loginSt, srv, seen>>

\* Whether loadAll's catch clears the credential for a failure of kind k.
LoadAllClears(k) == TRUE

\* loadAll's catch, for the failure that rejected the await.
LoadAllCatch(t) ==
    /\ t.op = "loadAll"
    /\ \E k \in RejectionsOf(t) :
         /\ err' = IF t.live THEN ErrorMessage(k) ELSE err
         /\ loadOutcome' = IF t.live THEN k ELSE loadOutcome
         /\ token' = IF LoadAllClears(k) THEN FALSE ELSE token
         /\ ev' = [op |-> "LoadAllCatch", live |-> t.live, kind |-> k, hadToken |-> token]
    /\ nav' = Goto("login")
    /\ tasks' = tasks \ {t}
    /\ UNCHANGED <<page, timer, logins, tab, me, cfg, sources, posts, stats, logs, runAuto,
                   runLoading, newHandle, loginSt, srv, seen>>

\* The polling effect's timer callback up to its await.
PollTask == [op |-> "poll", live |-> TRUE, tok |-> getToken,
             r |-> Request({"logs", "posts", "stats"})]

PollTick ==
    /\ timer
    /\ CanStart
    /\ Cardinality({t \in tasks : t.op = "poll"}) < MaxPolls
    /\ tasks' = tasks \cup {PollTask}
    /\ ev' = Quiet
    /\ UNCHANGED <<browser, dash, loginSt, srv, loadOutcome, seen>>

\* A slip: the poll callback sets the logs alone, not the candidates and stats.
PollDone_LogsOnly(t) ==
    /\ t.op = "poll" /\ Resolved(t)
    /\ tasks' = tasks \ {t}
    /\ logs' = IF t.live THEN t.r.logs.v ELSE logs
    /\ ev' = Quiet
    /\ UNCHANGED <<browser, tab, me, cfg, sources, posts, stats, runAuto, runLoading, err,
                   newHandle, loginSt, srv, loadOutcome, seen>>

PollDone(t) ==
    /\ t.op = "poll" /\ Resolved(t)
    /\ tasks' = tasks \ {t}
    /\ IF t.live
         THEN logs' = t.r.logs.v /\ posts' = t.r.posts.v /\ stats' = t.r.stats.v
         ELSE UNCHANGED <<logs, posts, stats>>
    /\ ev' = Quiet
    /\ UNCHANGED <<browser, tab, me, cfg, sources, runAuto, runLoading, err, newHandle,
                   loginSt, srv, loadOutcome, seen>>

\* A slip: each fetch of the cycle awaited and applied on its own, so that the
\* ones that succeeded are set although another failed.
PollCatch_Partial(t) ==
    /\ t.op = "poll" /\ Rejected(t)
    /\ tasks' = tasks \ {t}
    /\ logs' = IF t.r.logs.st = "ok" THEN t.r.logs.v ELSE logs
    /\ posts' = IF t.r.posts.st = "ok" THEN t.r.posts.v ELSE posts
    /\ stats' = IF t.r.stats.st = "ok" THEN t.r.stats.v ELSE stats
    /\ ev' = [op |-> "PollCatch"]
    /\ UNCHANGED <<browser, tab, me, cfg, sources, runAuto, runLoading, err, newHandle,
                   loginSt, srv, loadOutcome, seen>>

\* A slip: the poll's catch written as the handlers' catch, setErr(message).
PollCatch_Surfaced(t) ==
    /\ t.op = "poll" /\ Rejected(t)
    /\ tasks' = tasks \ {t}
    /\ \E k \in RejectionsOf(t) : err' = ErrorMessage(k)
    /\ ev' = [op |-> "PollCatch"]
    /\ UNCHANGED <<browser, tab, me, cfg, sources, posts, stats, logs, runAuto, runLoading,
                   newHandle, loginSt, srv, loadOutcome, seen>>

\* catch {}
PollCatch(t) ==
    /\ t.op = "poll" /\ Rejected(t)
    /\ tasks' = tasks \ {t}
    /\ ev' = [op |-> "PollCatch"]
    /\ UNCHANGED <<browser, dash, loginSt, srv, loadOutcome, seen>>

logout ==
    /\ page = "dashboard"
    /\ token' = FALSE
    /\ nav' = Goto("login")
    /\ ev' = Quiet
    /\ UNCHANGED <<page, timer, logins, tasks, dash, loginSt, srv, loadOutcome, seen>>

\* ---------------------------------------------------------- login page
onSubmit ==
    /\ page = "login" /\ ~loading
    /\ logins < MaxLogins
    /\ logins' = logins + 1
    /\ loginErr' = "null" /\ loading' = TRUE
    /\ tasks' = tasks \cup {[op |-> "login", live |-> TRUE, tok |-> getToken,
                             r |-> Request({"post"})]}
    /\ ev' = Quiet
    /\ UNCHANGED <<page, nav, token, timer, dash, srv, loadOutcome, seen>>

\* ------------------------------------------------------------- router
\* What a torn-down page's task can still do: loadAll's catch clears the token
\* and navigates; a POST not yet served still reaches the service; a login
\* that succeeded still stores the token and pushes the dashboard.  Its other
\* completions only set the state of an unmounted component, which does nothing.
StillActs(t) ==
    \/ t.op = "loadAll"
    \/ "post" \in DOMAIN t.r /\ t.r.post = Waiting
    \/ t.op = "login" /\ Resolved(t)

Unmounted(ts) == {[t EXCEPT !.live = FALSE] : t \in {u \in ts : StillActs(u)}}

\* A slip: the polling effect returns no cleanup, and the interval lives on.
TimerAfterCleanup_Kept == timer

\* The polling effect's cleanup: clearInterval.
TimerAfterCleanup == FALSE

\* The router commits the navigation: the old page is unmounted (its effects'
\* cleanups run), the new one is mounted (its state initial, its effects run).
NavCommit ==
    /\ nav /= "none"
    /\ page' = nav /\ nav' = "none"
    /\ DashBecomes(DashboardState)
    /\ loginErr' = "null" /\ loading' = FALSE
    /\ loadOutcome' = "pending"
    /\ approvedSeen' = {} /\ clearedSeen' = FALSE
    /\ IF nav = "dashboard"
         THEN timer' = TRUE /\ tasks' = Unmounted(tasks) \cup {LoadAllTask}
         ELSE timer' = (IF page = "dashboard" THEN TimerAfterCleanup ELSE timer)
              /\ tasks' = Unmounted(tasks)
    /\ ev' = Quiet
    /\ UNCHANGED <<token, logins, srv>>

\* ----------------------------------------- remote service: the mutations
PostWaiting(t, op) == t.op = op /\ "post" \in DOMAIN t.r /\ t.r.post = Waiting

Answer(t, v) == Swap(t, [t EXCEPT !.r.post = Ok(v)])

\* Any POST but the login may fail as a GET does.
ServeFail(t) ==
    /\ "post" \in DOMAIN t.r /\ t.r.post = Waiting /\ t.op /= "login"
    /\ \E k \in Kinds(t.tok) \ {"ok"} : tasks' = Swap(t, [t EXCEPT !.r.post = Failed(k)])
    /\ UNCHANGED <<browser, dash, loginSt, srv, ev, loadOutcome, seen>>

\* POST /api/config <Config> -> Config
ServeSaveConfig(t) ==
    /\ PostWaiting(t, "saveConfig") /\ "ok" \in Kinds(t.tok)
    /\ srvCfg' = t.body
    /\ tasks' = Answer(t, t.body)
    /\ UNCHANGED <<browser, dash, loginSt, srvSources, srvPosts, srvLogs, srvNextLog, srvJobs,
                   srvSession, ev, loadOutcome, seen>>

\* POST /api/sources {platform, handle, enabled} -> Source
ServeAddSource(t) ==
    /\ PostWaiting(t, "addSource") /\ "ok" \in Kinds(t.tok)
    /\ Len(srvSources) < MaxSources
    /\ srvSources' = Append(srvSources, t.body)
    /\ tasks' = Answer(t, t.body)
    /\ UNCHANGED <<browser, dash, loginSt, srvCfg, srvPosts, srvLogs, srvNextLog, srvJobs,
                   srvSession, ev, loadOutcome, seen>>

\* POST /api/run {auto_publish} -> {enqueued_job_id}
ServeRun(t) ==
    /\ PostWaiting(t, "runNow") /\ "ok" \in Kinds(t.tok)
    /\ srvJobs < MaxJobs
    /\ srvJobs' = srvJobs + 1
    /\ tasks' = Answer(t, [enqueued_job_id |-> srvJobs + 1])
    /\ UNCHANGED <<browser, dash, loginSt, srvCfg, srvSources, srvPosts, srvLogs, srvNextLog,
                   srvSession, ev, loadOutcome, seen>>

\* POST /api/posts/{id}/approve: a candidate awaiting approval is approved, and
\* published at once or by a later pipeline step.
ServeApprove(t) ==
    /\ PostWaiting(t, "approve") /\ "ok" \in Kinds(t.tok)
    /\ srvPosts[t.id].status = "awaiting_approval"
    /\ \E st \in {"approved", "published"} : srvPosts' = [srvPosts EXCEPT ![t.id].status = st]
    /\ tasks' = Answer(t, NullV)
    /\ UNCHANGED <<browser, dash, loginSt, srvCfg, srvSources, srvLogs, srvNextLog, srvJobs,
                   srvSession, ev, loadOutcome, seen>>

\* POST /api/logs/clear
ServeClearLogs(t) ==
    /\ PostWaiting(t, "clearLogs") /\ "ok" \in Kinds(t.tok)
    /\ srvLogs' = <<>>
    /\ tasks' = Answer(t, NullV)
    /\ UNCHANGED <<browser, dash, loginSt, srvCfg, srvSources, srvPosts, srvNextLog, srvJobs,
                   srvSession, ev, loadOutcome, seen>>

\* POST /auth/login {email, password} -> {token}
ServeLogin(t) ==
    /\ PostWaiting(t, "login")
    /\ srvSession' = TRUE
    /\ tasks' = Answer(t, [token |-> TRUE])
    /\ UNCHANGED <<browser, dash, loginSt, srvCfg, srvSources, srvPosts, srvLogs, srvNextLog,
                   srvJobs, ev, loadOutcome, seen>>

\* The service refuses the credentials, or fails.
ServeLoginFail(t) ==
    /\ PostWaiting(t, "login")
    /\ \E k \in FailKinds : tasks' = Swap(t, [t EXCEPT !.r.post = Failed(k)])
    /\ UNCHANGED <<browser, dash, loginSt, srv, ev, loadOutcome, seen>>

\* The service stops honouring the session (it expires, or is revoked).
SrvExpire ==
    /\ srvSession
    /\ srvSession' = FALSE
    /\ UNCHANGED <<browser, tasks, dash, loginSt, srvCfg, srvSources, srvPosts, srvLogs,
                   srvNextLog, srvJobs, ev, loadOutcome, seen>>

\* ------------------------------------------- login page: after the await
LoginDone(t) ==
    /\ t.op = "login" /\ Resolved(t)
    /\ token' = t.r.post.v.token
    /\ nav' = Goto("dashboard")
    /\ loading' = IF t.live THEN FALSE ELSE loading
    /\ tasks' = tasks \ {t}
    /\ ev' = Quiet
    /\ UNCHANGED <<page, timer, logins, dash, loginErr, srv, loadOutcome, seen>>

\* A slip: r.push("/dashboard") written after the try statement, so that it
\* runs after the catch too.
LoginCatch_Pushes(t) ==
    /\ t.op = "login"
    /\ \E k \in RejectionsOf(t) : loginErr' = ErrorMessage(k)
    /\ nav' = Goto("dashboard")
    /\ loading' = FALSE
    /\ tasks' = tasks \ {t}
    /\ ev' = Quiet
    /\ UNCHANGED <<page, token, timer, logins, dash, srv, loadOutcome, seen>>

LoginCatch(t) ==
    /\ t.op = "login"
    /\ \E k \in RejectionsOf(t) : loginErr' = ErrorMessage(k)
    /\ loading' = FALSE
    /\ tasks' = tasks \ {t}
    /\ ev' = Quiet
    /\ UNCHANGED <<browser, dash, srv, loadOutcome, seen>>

\* ------------------------------------------- dashboard page: the handlers
\* What a handler's catch does: setErr(message), on a mounted page.
Caught(t) == \E k \in RejectionsOf(t) : err' = IF t.live THEN ErrorMessage(k) ELSE err

saveConfig ==
    /\ page = "dashboard" /\ tab = "config" /\ cfg /= NullV
    /\ CanStart
    /\ err' = "null"
    /\ tasks' = tasks \cup {[op |-> "saveConfig", live |-> TRUE, tok |-> getToken,
                             body |-> cfg, r |-> Request({"post"})]}
    /\ ev' = Quiet
    /\ UNCHANGED <<browser, tab, me, cfg, sources, posts, stats, logs, runAuto, runLoading,
                   newHandle, loginSt, srv, loadOutcome, seen>>

\* A slip: saveConfig leaves the run mode as the operator toggled it.
SavedRunAuto_Kept(saved) == runAuto

\* The run mode saveConfig pre-selects from the saved Config.
SavedRunAuto(saved) == ~saved.approval_required

SaveConfigDone(t) ==
    /\ t.op = "saveConfig" /\ Resolved(t)
    /\ tasks' = tasks \ {t}
    /\ IF t.live
         THEN cfg' = t.r.post.v /\ runAuto' = SavedRunAuto(t.r.post.v)
         ELSE UNCHANGED <<cfg, runAuto>>
    /\ ev' = [op |-> "SaveConfigDone", live |-> t.live, saved |-> t.r.post.v]
    /\ UNCHANGED <<browser, tab, me, sources, posts, stats, logs, runLoading, err, newHandle,
                   loginSt, srv, loadOutcome, seen>>

SaveConfigCatch(t) ==
    /\ t.op = "saveConfig" /\ Rejected(t)
    /\ Caught(t)
    /\ tasks' = tasks \ {t}
    /\ ev' = Quiet
    /\ UNCHANGED <<browser, tab, me, cfg, sources, posts, stats, logs, runAuto, runLoading,
                   newHandle, loginSt, srv, loadOutcome, seen>>

addSource ==
    /\ page = "dashboard" /\ tab = "sources" /\ newHandle /= ""
    /\ CanStart
    /\ err' = "null"
    /\ tasks' = tasks \cup {[op |-> "addSource", pc |-> "post", live |-> TRUE, tok |-> getToken,
                             body |-> [handle |-> newHandle, enabled |-> TRUE],
                             r |-> Request({"post"})]}
    /\ ev' = Quiet
    /\ UNCHANGED <<browser, tab, me, cfg, sources, posts, stats, logs, runAuto, runLoading,
                   newHandle, loginSt, srv, loadOutcome, seen>>

\* A handler's second await, the re-fetch: only a mounted page's is followed.
Refetch(t, slot) ==
    IF t.live
      THEN Swap(t, [t EXCEPT !.pc = "get", !.tok = getToken, !.r = Request({slot})])
      ELSE tasks \ {t}

AddSourcePosted(t) ==
    /\ t.op = "addSource" /\ t.pc = "post" /\ Resolved(t)
    /\ newHandle' = IF t.live THEN "" ELSE newHandle
    /\ tasks' = Refetch(t, "sources")
    /\ ev' = Quiet
    /\ UNCHANGED <<browser, tab, me, cfg, sources, posts, stats, logs, runAuto, runLoading,
                   err, loginSt, srv, loadOutcome, seen>>

AddSourceDone(t) ==
    /\ t.op = "addSource" /\ t.pc = "get" /\ Resolved(t)
    /\ sources' = IF t.live THEN t.r.sources.v ELSE sources
    /\ tasks' = tasks \ {t}
    /\ ev' = Quiet
    /\ UNCHANGED <<browser, tab, me, cfg, posts, stats, logs, runAuto, runLoading, err,
                   newHandle, loginSt, srv, loadOutcome, seen>>

AddSourceCatch(t) ==
    /\ t.op = "addSource" /\ Rejected(t)
    /\ Caught(t)
    /\ tasks' = tasks \ {t}
    /\ ev' = Quiet
    /\ UNCHANGED <<browser, tab, me, cfg, sources, posts, stats, logs, runAuto, runLoading,
                   newHandle, loginSt, srv, loadOutcome, seen>>

\* A slip: the Run button without its disabled attribute.
RunEnabled_Always == TRUE

\* <Button disabled={runLoading} onClick={runNow}>
RunEnabled == ~runLoading

\* A slip: the run mode taken from the Config on the page, not from the Mode select.
RunBody_FromConfig ==
    [auto_publish |-> IF cfg = NullV THEN FALSE ELSE ~cfg.approval_required]

\* The body runNow posts.
RunBody == [auto_publish |-> runAuto]

runNow ==
    /\ page = "dashboard" /\ tab = "overview" /\ RunEnabled
    /\ CanStart
    /\ err' = "null" /\ runLoading' = TRUE
    /\ tasks' = tasks \cup {[op |-> "runNow", live |-> TRUE, tok |-> getToken,
                             body |-> RunBody, r |-> Request({"post"})]}
    /\ ev' = [op |-> "runNow"]
    /\ UNCHANGED <<browser, tab, me, cfg, sources, posts, stats, logs, runAuto, newHandle,
                   loginSt, srv, loadOutcome, seen>>

RunNowDone(t) ==
    /\ t.op = "runNow" /\ Resolved(t)
    /\ tasks' = tasks \ {t}
    /\ IF t.live
         THEN tab' = "logs" /\ runLoading' = FALSE
         ELSE UNCHANGED <<tab, runLoading>>
    /\ ev' = Quiet
    /\ UNCHANGED <<browser, me, cfg, sources, posts, stats, logs, runAuto, err, newHandle,
                   loginSt, srv, loadOutcome, seen>>

RunNowCatch(t) ==
    /\ t.op = "runNow" /\ Rejected(t)
    /\ Caught(t)
    /\ runLoading' = IF t.live THEN FALSE ELSE runLoading
    /\ tasks' = tasks \ {t}
    /\ ev' = Quiet
    /\ UNCHANGED <<browser, tab, me, cfg, sources, posts, stats, logs, runAuto, newHandle,
                   loginSt, srv, loadOutcome, seen>>

\* {p.status === "awaiting_approval" ? <Button onClick={()=>approve(p.id)}> : null}
ApproveOffered ==
    IF tab = "queue" THEN {i \in DOMAIN posts : posts[i].status = "awaiting_approval"} ELSE {}

\* A slip: the content block rendered for every candidate past "new".
ShowsGenerated_PastNew(i) == posts[i].status /= "new"

\* {p.generated ? <the generated content> : "No generated content yet."}
ShowsGenerated(i) == posts[i].generated

approve(id) ==
    /\ page = "dashboard" /\ id \in ApproveOffered
    /\ CanStart
    /\ err' = "null"
    /\ tasks' = tasks \cup {[op |-> "approve", pc |-> "post", live |-> TRUE, tok |-> getToken,
                             id |-> id, r |-> Request({"post"})]}
    /\ ev' = Quiet
    /\ UNCHANGED <<browser, tab, me, cfg, sources, posts, stats, logs, runAuto, runLoading,
                   newHandle, loginSt, srv, loadOutcome, seen>>

ApprovePosted(t) ==
    /\ t.op = "approve" /\ t.pc = "post" /\ Resolved(t)
    /\ tasks' = Refetch(t, "posts")
    /\ ev' = Quiet
    /\ UNCHANGED <<browser, dash, loginSt, srv, loadOutcome, seen>>

\* The list approve sets after its re-fetch.
RefetchedPosts(t) == t.r.posts.v

ApproveDone(t) ==
    /\ t.op = "approve" /\ t.pc = "get" /\ Resolved(t)
    /\ posts' = IF t.live THEN RefetchedPosts(t) ELSE posts
    /\ tasks' = tasks \ {t}
    /\ ev' = [op |-> "ApproveDone", live |-> t.live, id |-> t.id, fetched |-> t.r.posts.v]
    /\ approvedSeen' = IF t.live /\ t.r.posts.v[t.id].status = "published"
                         THEN approvedSeen \cup {t.id} ELSE approvedSeen
    /\ UNCHANGED <<browser, tab, me, cfg, sources, stats, logs, runAuto, runLoading, err,
                   newHandle, loginSt, srv, loadOutcome, clearedSeen>>

\* approve's catch, around both awaits.
ApproveCatch(t) ==
    /\ t.op = "approve" /\ Rejected(t)
    /\ Caught(t)
    /\ tasks' = tasks \ {t}
    /\ ev' = [op |-> "ApproveCatch", live |-> t.live, pc |-> t.pc]
    /\ UNCHANGED <<browser, tab, me, cfg, sources, posts, stats, logs, runAuto, runLoading,
                   newHandle, loginSt, srv, loadOutcome, seen>>

clearLogs ==
    /\ page = "dashboard" /\ tab = "logs"
    /\ CanStart
    /\ tasks' = tasks \cup {[op |-> "clearLogs", pc |-> "post", live |-> TRUE, tok |-> getToken,
                             r |-> Request({"post"})]}
    /\ ev' = Quiet
    /\ UNCHANGED <<browser, dash, loginSt, srv, loadOutcome, seen>>

ClearLogsPosted(t) ==
    /\ t.op = "clearLogs" /\ t.pc = "post" /\ Resolved(t)
    /\ tasks' = Refetch(t, "logs")
    /\ ev' = Quiet
    /\ UNCHANGED <<browser, dash, loginSt, srv, loadOutcome, seen>>

\* The list clearLogs sets after its re-fetch.
RefetchedLogs(t) == t.r.logs.v

ClearLogsDone(t) ==
    /\ t.op = "clearLogs" /\ t.pc = "get" /\ Resolved(t)
    /\ logs' = IF t.live THEN RefetchedLogs(t) ELSE logs
    /\ tasks' = tasks \ {t}
    /\ ev' = [op |-> "ClearLogsDone", live |-> t.live, fetched |-> t.r.logs.v]
    /\ clearedSeen' = IF t.live THEN (t.r.logs.v = <<>> /\ srvLogs = <<>>) ELSE clearedSeen
    /\ UNCHANGED <<browser, tab, me, cfg, sources, posts, stats, runAuto, runLoading, err,
                   newHandle, loginSt, srv, loadOutcome, approvedSeen>>

\* clearLogs has no catch: a failed await rejects the handler's promise, unhandled.
ClearLogsThrow(t) ==
    /\ t.op = "clearLogs" /\ Rejected(t)
    /\ tasks' = tasks \ {t}
    /\ ev' = Quiet
    /\ UNCHANGED <<browser, dash, loginSt, srv, loadOutcome, seen>>

\* ------------------------------------------ dashboard page: the controls
setTab(x) ==
    /\ page = "dashboard" /\ x /= tab
    /\ tab' = x
    /\ ev' = Quiet
    /\ UNCHANGED <<browser, tasks, me, cfg, sources, posts, stats, logs, runAuto, runLoading,
                   err, newHandle, loginSt, srv, loadOutcome, seen>>

\* The Mode select's onChange.
setRunAuto(b) ==
    /\ page = "dashboard" /\ tab = "overview" /\ b /= runAuto
    /\ runAuto' = b
    /\ ev' = Quiet
    /\ UNCHANGED <<browser, tasks, tab, me, cfg, sources, posts, stats, logs, runLoading,
                   err, newHandle, loginSt, srv, loadOutcome, seen>>

\* The Settings form's "Approval required" select.
setCfg(b) ==
    /\ page = "dashboard" /\ tab = "config" /\ cfg /= NullV
    /\ b /= cfg.approval_required
    /\ cfg' = [cfg EXCEPT !.approval_required = b]
    /\ ev' = Quiet
    /\ UNCHANGED <<browser, tasks, tab, me, sources, posts, stats, logs, runAuto, runLoading,
                   err, newHandle, loginSt, srv, loadOutcome, seen>>

setNewHandle(h) ==
    /\ page = "dashboard" /\ tab = "sources" /\ h /= newHandle
    /\ newHandle' = h
    /\ ev' = Quiet
    /\ UNCHANGED <<browser, tasks, tab, me, cfg, sources, posts, stats, logs, runAuto,
                   runLoading, err, loginSt, srv, loadOutcome, seen>>

\* ------------------------------------------------------- specification
Init ==
    /\ page = "home" /\ nav = "none" /\ token \in BOOLEAN /\ timer = FALSE
    /\ tasks = {}
    /\ DashIs(DashboardState)
    /\ loginErr = "null" /\ loading = FALSE
    /\ srvCfg \in [approval_required : BOOLEAN]
    /\ srvSources = <<>>
    /\ srvPosts \in [Ids -> {Stored(st) : st \in StatusSet}]
    /\ srvLogs = <<>> /\ srvNextLog = 1
    /\ srvJobs = 0
    /\ srvSession \in BOOLEAN
    /\ ev = [op |-> "init"]
    /\ loadOutcome = "pending"
    /\ logins = 0
    /\ approvedSeen = {} /\ clearedSeen = FALSE

Service ==
    \/ \E i \in Ids : SrvAdvance(i)
    \/ SrvLog
    \/ SrvExpire
    \/ \E t \in tasks :
         \/ \E s \in GetSlots : ServeGet(t, s)
         \/ ServeFail(t)
         \/ ServeSaveConfig(t)
         \/ ServeAddSource(t)
         \/ ServeRun(t)
         \/ ServeApprove(t)
         \/ ServeClearLogs(t)
         \/ ServeLogin(t)
         \/ ServeLoginFail(t)

Continue ==
    \E t \in tasks :
      \/ LoadAllMe(t) \/ LoadAllDone(t) \/ LoadAllCatch(t)
      \/ PollDone(t) \/ PollCatch(t)
      \/ LoginDone(t) \/ LoginCatch(t)
      \/ SaveConfigDone(t) \/ SaveConfigCatch(t)
      \/ AddSourcePosted(t) \/ AddSourceDone(t) \/ AddSourceCatch(t)
      \/ RunNowDone(t) \/ RunNowCatch(t)
      \/ ApprovePosted(t) \/ ApproveDone(t) \/ ApproveCatch(t)
      \/ ClearLogsPosted(t) \/ ClearLogsDone(t) \/ ClearLogsThrow(t)

Operator ==
    \/ onSubmit
    \/ logout
    \/ saveConfig
    \/ addSource
    \/ runNow
    \/ \E i \in Ids : approve(i)
    \/ clearLogs
    \/ \E x \in Tabs : setTab(x)
    \/ \E b \in BOOLEAN : setRunAuto(b)
    \/ \E b \in BOOLEAN : setCfg(b)
    \/ \E h \in Handles \cup {""} : setNewHandle(h)

Next == Home \/ NavCommit \/ PollTick \/ Operator \/ Continue \/ Service

Spec == Init /\ [][Next]_vars

\* ------------------------------------------- the parts, checked one by one
\* Next composes every handler with every other; its state space is the product
\* of theirs.  Each specification below keeps the page's life cycle, loadAll, the
\* polling timer and the service's GETs, and adds the handlers of one concern.
Loading == \E t \in tasks : LoadAllMe(t) \/ LoadAllDone(t) \/ LoadAllCatch(t)

Polling == PollTick \/ \E t \in tasks : PollDone(t) \/ PollCatch(t)

Gets == \E t \in tasks : \E s \in GetSlots : ServeGet(t, s)

Core == Home \/ NavCommit \/ Loading \/ Polling \/ Gets

\* The browser opens the app with a token the service honours.
SignedIn == token = TRUE /\ srvSession = TRUE

\* The service's state where a part does not depend on it.
QuietCfg == srvCfg = [approval_required |-> TRUE]

QuietPosts == srvPosts = [i \in Ids |-> Stored("published")]

\* Sessions: login, logout, expiry.
NextAuth ==
    \/ Core
    \/ logout
    \/ onSubmit
    \/ SrvExpire
    \/ \E t \in tasks : LoginDone(t) \/ LoginCatch(t) \/ ServeLogin(t) \/ ServeLoginFail(t)

InitAuth == Init /\ QuietCfg /\ QuietPosts

SpecAuth == InitAuth /\ [][NextAuth]_vars

\* The run mode: the Settings form, saveConfig, the Mode select, runNow.
NextRun ==
    \/ Core
    \/ saveConfig
    \/ runNow
    \/ \E x \in {"overview", "config"} : setTab(x)
    \/ \E b \in BOOLEAN : setRunAuto(b)
    \/ \E b \in BOOLEAN : setCfg(b)
    \/ \E t \in tasks :
         \/ SaveConfigDone(t) \/ SaveConfigCatch(t) \/ RunNowDone(t) \/ RunNowCatch(t)
         \/ ServeSaveConfig(t) \/ ServeRun(t) \/ ServeFail(t)

InitRun == Init /\ SignedIn /\ QuietPosts

SpecRun == InitRun /\ [][NextRun]_vars

\* The candidates the operator approves in SpecApprove.
Approvable == {1}

\* The queue: the pipeline's progress and approve.
NextApprove ==
    \/ Core
    \/ \E i \in Approvable : approve(i)
    \/ \E i \in Ids : SrvAdvance(i)
    \/ \E x \in {"overview", "queue"} : setTab(x)
    \/ \E t \in tasks :
         \/ ApprovePosted(t) \/ ApproveDone(t) \/ ApproveCatch(t)
         \/ ServeApprove(t) \/ ServeFail(t)

\* The first candidate awaits approval; each other one does too, or is published.
InitApprove ==
    /\ Init /\ SignedIn /\ QuietCfg
    /\ srvPosts[1].status = "awaiting_approval"
    /\ \A i \in Ids : srvPosts[i].status \in {"awaiting_approval", "published"}

SpecApprove == InitApprove /\ [][NextApprove]_vars

\* The logs: the service's events and clearLogs.
NextLogs ==
    \/ Core
    \/ clearLogs
    \/ SrvLog
    \/ \E x \in {"overview", "logs"} : setTab(x)
    \/ \E t \in tasks :
         \/ ClearLogsPosted(t) \/ ClearLogsDone(t) \/ ClearLogsThrow(t)
         \/ ServeClearLogs(t) \/ ServeFail(t)

InitLogs == Init /\ SignedIn /\ QuietCfg /\ QuietPosts

SpecLogs == InitLogs /\ [][NextLogs]_vars

\* The live view: the pipeline moves on and logs while the dashboard polls.
NextSync ==
    \/ Core
    \/ SrvLog
    \/ \E i \in Ids : SrvAdvance(i)

\* The first candidate is approved and about to be published.
InitSync ==
    /\ Init /\ SignedIn /\ QuietCfg
    /\ srvPosts[1].status = "approved" /\ \A i \in Ids \ {1} : srvPosts[i].status = "published"

\* setInterval fires the callback every 4 s while the interval is set; the
\* service answers the requests for each resource; the event loop runs the continuation
\* of a settled promise; the router commits a navigation it was asked for.
FairSync ==
    /\ WF_vars(PollTick)
    /\ \A s \in GetSlots : WF_vars(\E t \in tasks : ServeGet(t, s))
    /\ WF_vars(Loading)
    /\ WF_vars(\E t \in tasks : PollDone(t) \/ PollCatch(t))
    /\ WF_vars(NavCommit)

SpecSync == InitSync /\ [][NextSync]_vars /\ FairSync

\* The pipeline takes a new candidate through its stages while the queue is watched.
NextPipeline ==
    \/ Core
    \/ \E i \in Ids : SrvAdvance(i)
    \/ \E x \in {"overview", "queue"} : setTab(x)

\* The first candidate is new; the others are published already.
InitPipeline ==
    /\ Init /\ SignedIn /\ QuietCfg
    /\ srvPosts[1].status = "new" /\ \A i \in Ids \ {1} : srvPosts[i].status = "published"

SpecPipeline == InitPipeline /\ [][NextPipeline]_vars

\* --------------------------------------------------------------- claims
\* The requests of one handler that this page has in flight.
InFlight(op) == {t \in tasks : t.op = op /\ t.live}

Polls(ts) == Cardinality({t \in ts : t.op = "poll"})

\* C1: once the initial load of the mounted page has failed with an
\* authentication failure, the credential is cleared and the timer starts no
\* polling cycle any more: no step adds a poll cycle to the requests in flight.
C1_NoPollAfterAuthFailure ==
    [][/\ (loadOutcome /= "auth" /\ loadOutcome' = "auth" => token' = FALSE)
       /\ (loadOutcome = "auth" => Polls(tasks') <= Polls(tasks))]_vars

\* The steps of one page instance that may set the run mode, by C2 as written.
C2_LoadOrToggle ==
    \/ \E t \in tasks : LoadAllDone(t)
    \/ \E b \in BOOLEAN : setRunAuto(b)

C2_LoadSetsMode ==
    (loadOutcome = "pending" /\ loadOutcome' = "ok") => runAuto' = ~cfg'.approval_required

\* C2 as written: a successful load sets runAuto to !approval_required of the
\* loaded Config, and on one page instance only such a load or the operator's
\* toggle changes runAuto.
C2_KeepsUntilToggle ==
    [][/\ C2_LoadSetsMode
       /\ (page' = page /\ runAuto' /= runAuto => C2_LoadOrToggle)]_vars

\* C2 as amended: a successful load sets runAuto to !approval_required of the
\* loaded Config, and on one page instance only such a load, the operator's
\* toggle or a successful saveConfig changes runAuto; no poll does.
C2_KeepsUntilToggleOrSave ==
    [][/\ C2_LoadSetsMode
       /\ (page' = page /\ runAuto' /= runAuto =>
             C2_LoadOrToggle \/ \E t \in tasks : SaveConfigDone(t))]_vars

\* A Config with approval_required = true has been loaded: the mode is manual.
C2_Witness ==
    /\ ev.op = "LoadAllDone" /\ ev.live
    /\ cfg = [approval_required |-> TRUE] /\ runAuto = FALSE

\* C3: when a saveConfig of the mounted page has succeeded, the page holds the
\* saved Config and runAuto = !saved.approval_required.
C3_SaveResetsMode ==
    (ev.op = "SaveConfigDone" /\ ev.live) =>
        (cfg = ev.saved /\ runAuto = ~ev.saved.approval_required)

\* A Config with approval_required = false has been saved: the mode is automatic.
C3_Witness ==
    /\ ev.op = "SaveConfigDone" /\ ev.live
    /\ ev.saved = [approval_required |-> FALSE] /\ runAuto = TRUE

\* C4: when runNow has been invoked, its POST /api/run is in flight with
\* auto_publish equal to the Mode select's value, whatever the Config says.
C4_RunSendsMode ==
    ev.op = "runNow" => InFlight("runNow") /= {} /\
                        \A t \in InFlight("runNow") : t.body = [auto_publish |-> runAuto]

\* Automatic is selected and run while the Config requires approval.
C4_Witness ==
    /\ ev.op = "runNow" /\ runAuto = TRUE
    /\ cfg = [approval_required |-> TRUE] /\ srvCfg = [approval_required |-> TRUE]
    /\ \E t \in InFlight("runNow") : t.body.auto_publish = TRUE

\* C5 as written: the client never blocks a run: while a run request is in
\* flight the Run control still accepts the next invocation.
C5_NeverBlocked ==
    (page = "dashboard" /\ tab = "overview" /\ InFlight("runNow") /= {}) => RunEnabled

\* C5 as amended: an invocation of runNow puts one POST /api/run in flight, and
\* the Run control is disabled exactly while it is: the page never has two run
\* requests in flight.
C5_OneRunInFlight ==
    /\ Cardinality(InFlight("runNow")) <= 1
    /\ (ev.op = "runNow" => InFlight("runNow") /= {})
    /\ (page = "dashboard" => (RunEnabled <=> InFlight("runNow") = {}))

\* Two runs, one after the other, have enqueued two jobs, and a third is in flight.
C5_Witness ==
    /\ srvJobs = 2 /\ page = "dashboard"
    /\ InFlight("runNow") /= {} /\ ~RunEnabled

\* C6: a candidate that an approve re-fetch has shown published is shown
\* published, with no approve button, from then on, whatever polls complete.
C6_StaysPublished ==
    \A i \in approvedSeen : posts[i].status = "published" /\ i \notin ApproveOffered

\* C7: when the approve request has failed, approve re-fetches the candidates:
\* after its catch the GET /api/posts of that approve is in flight.
C7_RefetchAfterFailure ==
    (ev.op = "ApproveCatch" /\ ev.live /\ ev.pc = "post") =>
        \E t \in InFlight("approve") : t.pc = "get"

\* C8: once a clearLogs re-fetch has shown the log empty, and while the service
\* appends no event, the local log list is empty, whatever polls complete.
C8_ClearedStaysEmpty == clearedSeen => logs = <<>>

\* The candidates of the local snapshot that await approval.
Awaiting == {i \in 1..Len(posts) : posts[i].status = "awaiting_approval"}

\* C9 as written: both pending counts on the page, the "Pending approval" card
\* and the "Manual approvals" card, equal the number of candidates of the local
\* snapshot awaiting approval, and approve is offered for exactly those.
C9_PendingCountsAgree ==
    (page = "dashboard" /\ stats /= NullV) =>
        /\ PendingApprovalCard = Cardinality(Awaiting)
        /\ ManualApprovals = Cardinality(Awaiting)
        /\ (tab = "queue" => ApproveOffered = Awaiting)

\* C9 as amended: the "Manual approvals" count (pending.length) equals the
\* number of candidates of the local snapshot awaiting approval, pending lists
\* exactly those, and approve is offered for exactly those.
C9_ManualApprovalsCount ==
    page = "dashboard" =>
        /\ ManualApprovals = Cardinality(Awaiting)
        /\ {pending[k] : k \in 1..Len(pending)} = Awaiting
        /\ (tab = "queue" => ApproveOffered = {pending[k] : k \in 1..Len(pending)})

\* Of two candidates on the queue tab one awaits approval, the other is approved.
C9_Witness ==
    /\ page = "dashboard" /\ tab = "queue" /\ Len(posts) = 2
    /\ ManualApprovals = 1 /\ \E i \in 1..Len(posts) : posts[i].status = "approved"

\* C10: an initial load that fails with a failure other than an authentication
\* failure reports the error and leaves the stored credential as it was.
C10_OnlyAuthErrorClears ==
    (ev.op = "LoadAllCatch" /\ ev.kind /= "auth") =>
        /\ token = ev.hadToken
        /\ (ev.live => err = ErrorMessage(ev.kind))

\* The step in which the page's poll cycle ends after one of its fetches failed.
PollFails == page' = page /\ \E t \in tasks \ tasks' : t.op = "poll" /\ Rejected(t)

\* C11: the step that ends a failed poll cycle changes neither the inline
\* error, the credential, the pending navigation, the active tab nor the local
\* logs, candidates and stats, and leaves the timer set.
C11_PollFailureSwallowed ==
    [][PollFails => /\ UNCHANGED <<err, token, nav, tab, logs, posts, stats>>
                    /\ timer' = TRUE /\ timer = TRUE]_vars

\* A poll cycle has failed on a loaded dashboard: its snapshot and timer are kept.
C11_Witness ==
    /\ ev.op = "PollCatch" /\ page = "dashboard" /\ nav = "none"
    /\ loadOutcome = "ok" /\ stats /= NullV /\ err = "null" /\ timer = TRUE

\* C12: while the dashboard is not the mounted page its timer is released, and
\* no step adds a poll cycle to the requests in flight.
C12_NoPollAfterTeardown ==
    [][/\ (page' /= "dashboard" => timer' = FALSE)
       /\ (page /= "dashboard" => Polls(tasks') <= Polls(tasks))]_vars

\* A dashboard was torn down with its loadAll still in flight: the timer is released.
C12_Witness ==
    /\ page = "login" /\ timer = FALSE
    /\ \E t \in tasks : t.op = "loadAll" /\ ~t.live

\* The step in which a request of the mounted dashboard, answered with an
\* authentication failure, is given up by its handler.
AuthFailureHandled ==
    /\ page = "dashboard" /\ page' = page
    /\ \E t \in tasks \ tasks' : t.live /\ t.op /= "login" /\ "auth" \in RejectionsOf(t)

\* C13: whenever a request other than the login is answered with an
\* authentication failure, the handler clears the stored credential and asks
\* for the navigation to the login page.
C13_AuthFailureRedirects ==
    [][AuthFailureHandled => token' = FALSE /\ nav' = "login"]_vars

\* The operations of the dashboard that change the service's state.
Mutations == {"saveConfig", "addSource", "runNow", "approve", "clearLogs"}

\* C14: the step in which a failed mutation of the mounted dashboard is given up
\* sets the inline error to the failure's message and leaves config, sources,
\* candidates, logs, stats, the run mode and the active tab as they were.
C14_FailureSurfacedStateKept ==
    [][\A t \in tasks \ tasks' :
         (page = "dashboard" /\ page' = page /\ t.live /\ t.op \in Mutations /\ Rejected(t)) =>
            /\ \E k \in RejectionsOf(t) : err' = ErrorMessage(k)
            /\ UNCHANGED <<cfg, sources, posts, logs, stats, runAuto, tab>>]_vars

\* The local view equals the service's logs, candidates and stats.
Synced == logs = srvLogs /\ posts = srvPosts /\ stats = StatsOf(srvPosts)

\* No request in flight has been answered with a failure.
RequestsSucceed == \A t \in tasks : ~Rejected(t)

\* C15: if from some point on the dashboard stays mounted, no request fails and
\* the service's logs and candidates no longer change, then from some point on
\* the local logs, candidates and stats equal the service's, for good.
C15_EventuallyConsistent ==
    (/\ <>[](page = "dashboard" /\ RequestsSucceed)
     /\ <>[][UNCHANGED <<srvLogs, srvPosts>>]_vars)
        => <>[]Synced

\* The view has caught up with a service that has published and logged since the load.
C15_Witness ==
    /\ page = "dashboard" /\ loadOutcome = "ok" /\ Synced
    /\ srvPosts[1].status = "published" /\ srvLogs /= <<>>

RedirectDecided == page = "dashboard" /\ nav = "login"

\* C17: once the redirect to login is decided, no step writes the dashboard's
\* logs, candidates, stats, config or run mode while it is still mounted.
C17_NoWriteAfterRedirect ==
    [][(RedirectDecided /\ page' = page) =>
          UNCHANGED <<logs, posts, stats, cfg, runAuto>>]_vars

\* What a settled fetch of a cycle would set its slot to: its response, if it succeeded.
SlotSet(t, s, local) == t.r[s].st = "ok" => local = t.r[s].v

\* C18 as written: the fetches of a poll cycle are applied one by one: when a
\* cycle ends with a failed fetch, each of its fetches that succeeded has set
\* its own slot.
C18_SlotsIndependent ==
    [][\A t \in tasks \ tasks' :
         (page' = page /\ t.op = "poll" /\ Rejected(t)) =>
            /\ SlotSet(t, "logs", logs') /\ SlotSet(t, "posts", posts')
            /\ SlotSet(t, "stats", stats')]_vars

\* C18 as amended: the fetches of a poll cycle are applied together or not at
\* all: the step that ends a cycle sets logs, candidates and stats to the three
\* responses when all three succeeded, and otherwise, like every step before
\* it, leaves the three slots as they were.
C18_AllOrNothing ==
    [][\A t \in tasks \ tasks' :
         (page' = page /\ t.op = "poll") =>
            IF Resolved(t)
              THEN logs' = t.r.logs.v /\ posts' = t.r.posts.v /\ stats' = t.r.stats.v
              ELSE UNCHANGED <<logs, posts, stats>>]_vars

\* A poll cycle fetched a log the page does not show, and another of its fetches failed.
C18_Witness ==
    /\ page = "dashboard" /\ loadOutcome = "ok"
    /\ \E t \in tasks : /\ t.op = "poll" /\ Rejected(t)
                         /\ t.r.logs.st = "ok" /\ t.r.logs.v /= logs

\* The step that ends a handler's re-fetch replaces the local copy by the response.
Replaced(t) ==
    CASE t.op = "addSource" -> sources' = t.r.sources.v
      [] t.op = "approve" -> posts' = t.r.posts.v
      [] t.op = "clearLogs" -> logs' = t.r.logs.v
      [] OTHER -> FALSE

\* C19: each successful mutation is followed at once by a re-fetch of what it
\* affects, and the local copy is replaced by the result: the handler's step
\* after its POST succeeded puts its GET in flight (for saveConfig the POST's
\* own response, the saved Config, is taken as that result), and the step
\* after the GET succeeded sets the local copy to the response.
C19_MutationRefetches ==
    [][\A t \in tasks \ tasks' :
         (page = "dashboard" /\ page' = page /\ t.live /\ t.op \in Mutations /\ Resolved(t)) =>
            IF "post" \in DOMAIN t.r
              THEN \/ t.op = "saveConfig" /\ cfg' = t.r.post.v
                   \/ \E u \in tasks' : u.op = t.op /\ "post" \notin DOMAIN u.r
              ELSE Replaced(t)]_vars

\* How far along new -> selected -> generated -> awaiting_approval/approved ->
\* published a status is.
Rank(st) ==
    CASE st = "new" -> 1
      [] st = "selected" -> 2
      [] st = "generated" -> 3
      [] st \in {"awaiting_approval", "approved"} -> 4
      [] OTHER -> 5

\* C20: the local candidate list changes only by being replaced with one whole
\* response of GET /api/posts, and it is the latest snapshot: when it is
\* replaced no candidate moves backwards along the pipeline.
C20_LatestSnapshot ==
    [][(page = "dashboard" /\ page' = page /\ posts' /= posts) =>
          /\ \E t \in tasks \ tasks' :
                /\ "posts" \in DOMAIN t.r /\ t.r.posts.st = "ok"
                /\ posts' = t.r.posts.v
          /\ Len(posts') = Len(posts) =>
                \A i \in 1..Len(posts) : Rank(posts'[i].status) >= Rank(posts[i].status)]_vars

\* C21: the credential is stored only by the step that ends a successful POST
\* /auth/login; the login page's step that ends a failed one leaves the
\* credential as it was, shows the error and asks for no navigation; and the
\* entry route asks for the dashboard if a credential is stored and for login
\* if none is.
C21_CredentialOnlyByLogin ==
    [][/\ (token' /\ ~token) =>
             \E t \in tasks \ tasks' : t.op = "login" /\ Resolved(t)
       /\ \A t \in tasks \ tasks' :
             (page' = page /\ t.op = "login" /\ Rejected(t)) =>
                /\ token' = token
                /\ \E k \in RejectionsOf(t) : loginErr' = ErrorMessage(k)
                /\ nav' = nav
       /\ (page = "home" /\ page' = page /\ nav' /= nav) =>
             nav' = (IF token THEN "dashboard" ELSE "login")]_vars

\* A login was refused: the login page shows the error, and no credential is stored.
C21_Witness ==
    /\ page = "login" /\ nav = "none" /\ logins = 1 /\ InFlight("login") = {}
    /\ loginErr /= "null" /\ ~loading /\ token = FALSE

====
